---------------------------- MODULE Spec2Model ----------------------------
(***************************************************************************)
(* State-machine model of the AutoIntel Robotics simulation core:          *)
(*   - App (src/unnamed/part_002): React state of the simulation lab, the  *)
(*     "Simulation Physics Loop" effect and the handlers that change it;   *)
(*   - Robot3DViewer (src/unnamed/part_001): the ref-sync effect and the   *)
(*     weld-spatter particle pool advanced by animate();                   *)
(*   - COMPONENTS / PRODUCTION_PRESETS (src/constants.tsx).                *)
(*                                                                         *)
(* Numbers.  The code computes in IEEE doubles (Float32Array for the pool).*)
(* TLC has 32-bit integers only, so quantities are fixed-point:            *)
(*   joint angles and angular velocities   micro-units   (1e-6)            *)
(*   gravity                               tenths        (slider step 0.1) *)
(*   friction, spatterDensity              hundredths    (slider step .01) *)
(*   spatterLife                           tenths        (slider step 0.1) *)
(*   particle life, position, velocity     1e-4 units                      *)
(*   Math.random()                         thousandths   (0 .. 999)        *)
(* Divisions truncate toward zero (Div), products are staged so that no    *)
(* intermediate value leaves the 32-bit range.                             *)
(*                                                                         *)
(* React.  Every state update of the app is made inside a discrete user    *)
(* event (click, change, drop); React renders those synchronously and      *)
(* flushes the effects whose dependencies changed before returning to the  *)
(* browser.  Each action below is therefore one handler together with the  *)
(* commit and the effects it triggers.  The continuation of a diagnostic   *)
(* request (after its await) is one more such step: its updates are        *)
(* batched and their effects flushed before the next animation frame.      *)
(***************************************************************************)
EXTENDS Integers, Sequences, FiniteSets, TLC

-----------------------------------------------------------------------------
(* Bounds of the model *)

\* integrator invocations explored in the full application specification
MaxSteps == 2
\* integrator invocations explored in the narrow, deep specifications
MaxDeepSteps == 8
\* mounts of the 3D viewer (visits of the simulation page)
MaxMounts == 2
\* diagnostic requests in flight at once
MaxInFlight == 1
\* handler invocations (user operations and request completions) explored
\* in the full application specification
MaxOps == 4

\* handler invocations explored by the narrower specifications
MaxFewOps == 3
\* health-analysis passes started
MaxPasses == 2
\* slots of the particle pool (800 in the source, scaled down)
MAX_SPARKS == 2
\* integrator invocations and handler invocations explored by the
\* specification of long particle lives
MaxLongSteps == 340
MaxLongOps == 2

-----------------------------------------------------------------------------
(* Fixed-point arithmetic *)

Abs(x) == IF x < 0 THEN -x ELSE x

\* quotient truncated toward zero, as a symmetric stand-in for float division
Div(a, b) == IF a >= 0 THEN a \div b ELSE -((-a) \div b)

Max(a, b) == IF a >= b THEN a ELSE b

\* pi in micro-radians and in 1e-4 radians
PiMicro == 3141593
Pi4 == 31416

\* Math.sin on an angle in 1e-4 rad with |x| <= pi/2, result in 1e-4:
\* the Taylor polynomial up to x^9, each power rescaled to 1e-4
SinPoly(x) ==
    LET x2 == Div(x * x, 10000)
        x3 == Div(x2 * x, 10000)
        x5 == Div(x3 * x2, 10000)
        x7 == Div(Div(x5, 10) * x2, 1000)
        x9 == Div(Div(x7, 100) * x2, 100)
    IN  x - Div(x3, 6) + Div(x5, 120) - Div(x7, 5040) + Div(x9, 362880)

\* Math.sin on an angle in 1e-4 rad, result in 1e-4 (range reduction to
\* [-pi, pi), then reflection into [-pi/2, pi/2])
Sin4(a) ==
    LET r == ((a + Pi4) % (2 * Pi4)) - Pi4
        q == IF r > Pi4 \div 2 THEN Pi4 - r
             ELSE IF r < -(Pi4 \div 2) THEN -Pi4 - r
             ELSE r
    IN  SinPoly(q)

\* Math.cos, as sin(a + pi/2)
Cos4(a) == Sin4(a + Pi4 \div 2)

\* Math.sin on an angle in micro-radians, result in 1e-4
SinMicro(theta) == Sin4(Div(theta, 100))

-----------------------------------------------------------------------------
(* Strings: a spec string is a tuple of one-character strings *)

Digits == {"0", "1", "2", "3", "4", "5", "6", "7", "8", "9"}

DigitVal(c) ==
    CASE c = "0" -> 0 [] c = "1" -> 1 [] c = "2" -> 2 [] c = "3" -> 3
      [] c = "4" -> 4 [] c = "5" -> 5 [] c = "6" -> 6 [] c = "7" -> 7
      [] c = "8" -> 8 [] c = "9" -> 9

\* String.prototype.includes(sub)
Includes(s, sub) ==
    \E i \in 1..(Len(s) - Len(sub) + 1) :
        \A j \in 1..Len(sub) : s[i + j - 1] = sub[j]

\* number of leading white-space characters of s
RECURSIVE SkipSpaces(_, _)
SkipSpaces(s, i) ==
    IF i <= Len(s) /\ s[i] = " " THEN SkipSpaces(s, i + 1) ELSE i

\* value of the longest run of decimal digits of s that starts at i,
\* acc being the value read so far
RECURSIVE ReadDigits(_, _, _)
ReadDigits(s, i, acc) ==
    IF i <= Len(s) /\ s[i] \in Digits
    THEN ReadDigits(s, i + 1, acc * 10 + DigitVal(s[i]))
    ELSE acc

\* a JavaScript number as parseInt returns it: NaN, or an integer
NaN == [nan |-> TRUE, val |-> 0]

Num(n) == [nan |-> FALSE, val |-> n]

\* parseInt(s): leading white space skipped, an optional sign, then decimal
\* digits up to the first other character; NaN when there is no digit
ParseInt(s) ==
    LET i    == SkipSpaces(s, 1)
        neg  == i <= Len(s) /\ s[i] = "-"
        sgn  == i <= Len(s) /\ s[i] \in {"-", "+"}
        j    == IF sgn THEN i + 1 ELSE i
    IN  IF j <= Len(s) /\ s[j] \in Digits
        THEN Num(IF neg THEN -ReadDigits(s, j, 0) ELSE ReadDigits(s, j, 0))
        ELSE NaN

\* isNaN(v)
IsNaN(v) == v.nan

-----------------------------------------------------------------------------
(* Static data (src/constants.tsx) *)

\* an inventory with a second entry of type Actuator, whose spec names no
\* torque
COMPONENTS_SpareActuator ==
    << [name |-> "NVIDIA Jetson AGX Orin", type |-> "Compute",
        spec |-> <<"2", "7", "5", " ", "T", "O", "P", "S">>],
       [name |-> "Unitree H1 Torque Motor", type |-> "Actuator",
        spec |-> <<"3", "6", "0", " ", "N", "m", " ", "P", "e", "a", "k">>],
       [name |-> "Ouster OS1 LiDAR", type |-> "Sensor",
        spec |-> <<"1", "2", "8", " ", "C", "h", "a", "n", "n", "e", "l", "s">>],
       [name |-> "Industrial Weld Gun", type |-> "Tool",
        spec |-> <<"1", "0", "k", "A", " ", "R", "e", "s", "i", "s", "t", "a", "n", "c", "e">>],
       [name |-> "Titanium Skeleton", type |-> "Chassis",
        spec |-> <<"6", "0", "6", "1", "-", "T", "6", " ", "G", "r", "a", "d", "e">>],
       [name |-> "Spare Servo", type |-> "Actuator",
        spec |-> <<"G", "e", "a", "r", "e", "d">>] >>

\* COMPONENTS: the inventory, icon omitted
COMPONENTS ==
    << [name |-> "NVIDIA Jetson AGX Orin", type |-> "Compute",
        spec |-> <<"2", "7", "5", " ", "T", "O", "P", "S">>],
       [name |-> "Unitree H1 Torque Motor", type |-> "Actuator",
        spec |-> <<"3", "6", "0", " ", "N", "m", " ", "P", "e", "a", "k">>],
       [name |-> "Ouster OS1 LiDAR", type |-> "Sensor",
        spec |-> <<"1", "2", "8", " ", "C", "h", "a", "n", "n", "e", "l", "s">>],
       [name |-> "Industrial Weld Gun", type |-> "Tool",
        spec |-> <<"1", "0", "k", "A", " ", "R", "e", "s", "i", "s", "t", "a", "n", "c", "e">>],
       [name |-> "Titanium Skeleton", type |-> "Chassis",
        spec |-> <<"6", "0", "6", "1", "-", "T", "6", " ", "G", "r", "a", "d", "e">>] >>

\* PRODUCTION_PRESETS[i].log, cut into the phrases the code searches for and
\* the text between them
PRESET_LOGS ==
    << <<"CRITICAL_SAFETY_ALARM", ": Light curtain breach at Zone 4. ",
         "Human profile identified", ". IMU-STOP command broadcast.">>,
       <<"WELD_QUALITY_FAIL", ": Spot miss detected at flange assembly P-24.">> >>

\* log.includes(phrase), on a log cut into phrases
LogIncludes(log, phrase) == \E i \in 1..Len(log) : log[i] = phrase

\* !log.trim(): the log is empty or white space only
IsBlank(log) == \A i \in 1..Len(log) : log[i] = " "

-----------------------------------------------------------------------------
(* installedComponents: a Record<string, RoboticComponent>, kept as the    *)
(* sequence of its values in key (insertion) order; the key is the type    *)

HasKey(ic, key) == \E i \in 1..Len(ic) : ic[i].type = key

Get(ic, key) == ic[CHOOSE i \in 1..Len(ic) : ic[i].type = key]

Keys(ic) == [i \in 1..Len(ic) |-> ic[i].type]

\* the updater without the spread of prev: { [item.type]: item }
Put_DropsOthers(ic, item) == << item >>

\* { ...prev, [item.type]: item }: an existing key keeps its place, a new
\* key is appended
Put(ic, item) ==
    IF HasKey(ic, item.type)
    THEN [i \in 1..Len(ic) |-> IF ic[i].type = item.type THEN item ELSE ic[i]]
    ELSE Append(ic, item)

-----------------------------------------------------------------------------
(* Joint dynamics integrator (the render callback of the physics effect)   *)

\* dt = 0.016 s, in thousandths
dt == 16

\* the fallback torque capacity
DEFAULT_CAPACITY == 100

\* the simRef value at construction and after Reset Vectors:
\* theta1 = PI/4, theta2 = PI/6, in micro-radians
SimInit ==
    [theta1 |-> PiMicro \div 4, omega1 |-> 0, theta2 |-> PiMicro \div 6, omega2 |-> 0]

\* maxTorqueCapacity without the isNaN check: the parse result is used as it
\* comes (NaN carried as 0)
MaxTorqueCapacity_NoNaNGuard(ic) ==
    IF HasKey(ic, "Actuator") /\ Includes(Get(ic, "Actuator").spec, <<"N", "m">>)
    THEN ParseInt(Get(ic, "Actuator").spec).val
    ELSE DEFAULT_CAPACITY

\* maxTorqueCapacity of the physics tick
MaxTorqueCapacity(ic) ==
    IF HasKey(ic, "Actuator") /\ Includes(Get(ic, "Actuator").spec, <<"N", "m">>)
    THEN LET parsed == ParseInt(Get(ic, "Actuator").spec)
         IN  IF ~IsNaN(parsed) THEN parsed.val ELSE DEFAULT_CAPACITY
    ELSE DEFAULT_CAPACITY

\* maxVal of renderSimulation (the torque read-out): parseInt(spec) || 100
MaxVal(ic) ==
    IF HasKey(ic, "Actuator") /\ Includes(Get(ic, "Actuator").spec, <<"N", "m">>)
    THEN LET parsed == ParseInt(Get(ic, "Actuator").spec)
         IN  IF IsNaN(parsed) \/ parsed.val = 0 THEN DEFAULT_CAPACITY ELSE parsed.val
    ELSE DEFAULT_CAPACITY

\* damping = friction * 5 * chassisEffect, in thousandths
Damping(f, ic) == f * 5 * (IF HasKey(ic, "Chassis") THEN 8 ELSE 10)

\* appliedTorque = (torque / 100) * maxTorqueCapacity * 0.5, in micro-units
AppliedTorque(tq, ic) == tq * MaxTorqueCapacity(ic) * 5000

\* omega += (drive - g*sin(theta) - omega*damping) * dt, in micro-units
NextOmega(omega, theta, drive, g, damping) ==
    omega + Div(drive - g * SinMicro(theta) * 10 - Div(omega, 1000) * damping, 1000) * dt

\* the angle advanced by the whole velocity: theta += omega
NextTheta_NoDt(theta, omegaNew) == theta + omegaNew

\* theta += omega * dt, with the velocity already updated
NextTheta(theta, omegaNew) == theta + Div(omegaNew * dt, 1000)

\* render() with each angle advanced by the velocity it had before the step
Integrate_OldVelocity(sim, g, f, tq, ic) ==
    LET damping == Damping(f, ic)
    IN  [theta1 |-> NextTheta(sim.theta1, sim.omega1),
         omega1 |-> NextOmega(sim.omega1, sim.theta1, AppliedTorque(tq, ic), g, damping),
         theta2 |-> NextTheta(sim.theta2, sim.omega2),
         omega2 |-> NextOmega(sim.omega2, sim.theta2, 0, g, damping)]

\* render() with the motor torque applied to joint 2 as well
Integrate_TorqueOnBoth(sim, g, f, tq, ic) ==
    LET damping == Damping(f, ic)
        o1 == NextOmega(sim.omega1, sim.theta1, AppliedTorque(tq, ic), g, damping)
        o2 == NextOmega(sim.omega2, sim.theta2, AppliedTorque(tq, ic), g, damping)
    IN  [theta1 |-> NextTheta(sim.theta1, o1), omega1 |-> o1,
         theta2 |-> NextTheta(sim.theta2, o2), omega2 |-> o2]

\* one call of render(): joint 1 driven by the motor, joint 2 passive
Integrate(sim, g, f, tq, ic) ==
    LET damping == Damping(f, ic)
        o1 == NextOmega(sim.omega1, sim.theta1, AppliedTorque(tq, ic), g, damping)
        t1 == NextTheta(sim.theta1, o1)
        o2 == NextOmega(sim.omega2, sim.theta2, 0, g, damping)
        t2 == NextTheta(sim.theta2, o2)
    IN  [theta1 |-> t1, omega1 |-> o1, theta2 |-> t2, omega2 |-> o2]

\* the value render() passes to setJointState
Published(sim) == [theta1 |-> sim.theta1, theta2 |-> sim.theta2]

-----------------------------------------------------------------------------
(* Weld-spatter particle pool (the "Spatter Update" block of animate())    *)

\* The values Math.random() is drawn from, in thousandths, one set per
\* call site: the spawn roll, the angle, the spread, the upward speed and
\* the life decay.  A specification fixes its sets in env.rnd.
RandSmall ==
    [roll |-> {0, 750}, angle |-> {750}, spread |-> {0}, up |-> {0}, decay |-> {0}]

RandDecay ==
    [roll |-> {0, 750}, angle |-> {750}, spread |-> {0}, up |-> {0}, decay |-> {0, 750}]

\* every spawn roll fails: no particle is ever spawned
RandQuiet ==
    [roll |-> {750}, angle |-> {750}, spread |-> {0}, up |-> {0}, decay |-> {0}]

Slots == 1..MAX_SPARKS

\* the life buffer allocated one element longer than the other two
EmptyPool_LongLife ==
    [life |-> [i \in 1..(MAX_SPARKS + 1) |-> 0],
     pos  |-> [i \in Slots |-> <<0, 0, 0>>],
     vel  |-> [i \in Slots |-> <<0, 0, 0>>]]

\* the three Float32Array attributes right after construction: all zero
EmptyPool ==
    [life |-> [i \in Slots |-> 0],
     pos  |-> [i \in Slots |-> <<0, 0, 0>>],
     vel  |-> [i \in Slots |-> <<0, 0, 0>>]]

\* y below which a particle is retired: -1.5
FLOOR_Y == -15000

\* the probability threshold of the spawn roll: Math.random() < 0.3
SPAWN_P == 300

\* spawnRate = Math.floor(density * 20), density in hundredths
SpawnRate(density) == (density * 20) \div 100

\* a spawn that is also moved, gravity-biased and decayed in its own tick
Spawned_AlsoAdvanced(rAngle, rSpread, rUp) ==
    LET angle  == Div(rAngle * 2 * Pi4, 1000)
        spread == 500 + rSpread * 2
        vx     == Div(Cos4(angle) * spread, 10000)
        vy     == Div(Sin4(angle) * spread, 10000)
        vz     == 1000 + rUp * 3
    IN  [life |-> 10000 - 150,
         pos  |-> <<vx, vy, 5000 + vz>>,
         vel  |-> <<vx, vy - 100, vz>>]

\* a slot right after it is spawned, from the three random draws
Spawned(rAngle, rSpread, rUp) ==
    LET angle  == Div(rAngle * 2 * Pi4, 1000)
        spread == 500 + rSpread * 2
    IN  [life |-> 10000,
         pos  |-> <<0, 0, 5000>>,
         vel  |-> << Div(Cos4(angle) * spread, 10000),
                     Div(Sin4(angle) * spread, 10000),
                     1000 + rUp * 3 >>]

\* the decay without its constant part: Math.random() * 0.01 / Math.max(0.1, lifeMult)
Decay_RandomOnly(rDecay, lifeMult) == Div(Div(rDecay, 10) * 10, Max(1, lifeMult))

\* lifes[i] -= (0.015 + Math.random() * 0.01) / Math.max(0.1, lifeMult)
Decay(rDecay, lifeMult) == Div((150 + Div(rDecay, 10)) * 10, Max(1, lifeMult))

\* the advance with the gravity bias applied before the move
Advanced_GravityFirst(p, rDecay, lifeMult) ==
    LET vel == << p.vel[1], p.vel[2] - 100, p.vel[3] >>
        pos == << p.pos[1] + vel[1], p.pos[2] + vel[2], p.pos[3] + vel[3] >>
        life == p.life - Decay(rDecay, lifeMult)
    IN  [life |-> IF pos[2] < FLOOR_Y THEN 0 ELSE life, pos |-> pos, vel |-> vel]

\* the advance of an active slot without the floor test
Advanced_NoFloor(p, rDecay, lifeMult) ==
    [life |-> p.life - Decay(rDecay, lifeMult),
     pos  |-> << p.pos[1] + p.vel[1], p.pos[2] + p.vel[2], p.pos[3] + p.vel[3] >>,
     vel  |-> << p.vel[1], p.vel[2] - 100, p.vel[3] >>]

\* an active slot after one tick: moved by its velocity, gravity applied to
\* the velocity, life decayed, and life forced to 0 below the floor
Advanced(p, rDecay, lifeMult) ==
    LET pos == << p.pos[1] + p.vel[1], p.pos[2] + p.vel[2], p.pos[3] + p.vel[3] >>
        vel == << p.vel[1], p.vel[2] - 100, p.vel[3] >>
        life == p.life - Decay(rDecay, lifeMult)
    IN  [life |-> IF pos[2] < FLOOR_Y THEN 0 ELSE life, pos |-> pos, vel |-> vel]

SlotOf(pool, i) == [life |-> pool.life[i], pos |-> pool.pos[i], vel |-> pool.vel[i]]

WithSlot(pool, i, p) ==
    [life |-> [pool.life EXCEPT ![i] = p.life],
     pos  |-> [pool.pos EXCEPT ![i] = p.pos],
     vel  |-> [pool.vel EXCEPT ![i] = p.vel]]

\* the per-slot iteration with spawned++ moved out of the success branch:
\* every roll uses up budget
SlotStep_CountsAttempts(st, i, spawnRate, lifeMult, rnd) ==
    IF st.pool.life[i] <= 0
    THEN IF st.spawned < spawnRate
         THEN UNION { IF r < SPAWN_P
                      THEN { [pool    |-> WithSlot(st.pool, i, Spawned(ra, rs, ru)),
                              spawned |-> st.spawned + 1,
                              rolls   |-> st.rolls + 1]
                               : ra \in rnd.angle, rs \in rnd.spread, ru \in rnd.up }
                      ELSE { [st EXCEPT !.rolls = st.rolls + 1,
                                        !.spawned = st.spawned + 1] }
                        : r \in rnd.roll }
         ELSE { st }
    ELSE { [st EXCEPT !.pool = WithSlot(st.pool, i,
                                        Advanced(SlotOf(st.pool, i), rd, lifeMult))]
             : rd \in rnd.decay }

\* the per-slot iteration without the spawned < spawnRate test
SlotStep_NoBudget(st, i, spawnRate, lifeMult, rnd) ==
    IF st.pool.life[i] <= 0
    THEN UNION { IF r < SPAWN_P
                 THEN { [pool    |-> WithSlot(st.pool, i, Spawned(ra, rs, ru)),
                         spawned |-> st.spawned + 1,
                         rolls   |-> st.rolls + 1]
                          : ra \in rnd.angle, rs \in rnd.spread, ru \in rnd.up }
                 ELSE { [st EXCEPT !.rolls = st.rolls + 1] }
                   : r \in rnd.roll }
    ELSE { [st EXCEPT !.pool = WithSlot(st.pool, i,
                                        Advanced(SlotOf(st.pool, i), rd, lifeMult))]
             : rd \in rnd.decay }

\* the outcomes of one iteration of the per-slot loop, from the loop state
\* st = [pool, spawned, rolls]; rolls counts the evaluations of the spawn
\* roll Math.random() < 0.3, which `spawned < spawnRate &&` short-circuits
SlotStep(st, i, spawnRate, lifeMult, rnd) ==
    IF st.pool.life[i] <= 0
    THEN IF st.spawned < spawnRate
         THEN UNION { IF r < SPAWN_P
                      THEN { [pool    |-> WithSlot(st.pool, i, Spawned(ra, rs, ru)),
                              spawned |-> st.spawned + 1,
                              rolls   |-> st.rolls + 1]
                               : ra \in rnd.angle, rs \in rnd.spread, ru \in rnd.up }
                      ELSE { [st EXCEPT !.rolls = st.rolls + 1] }
                        : r \in rnd.roll }
         ELSE { st }
    ELSE { [st EXCEPT !.pool = WithSlot(st.pool, i,
                                        Advanced(SlotOf(st.pool, i), rd, lifeMult))]
             : rd \in rnd.decay }

\* for (let i = 0; i < MAX_SPARKS; i++) { ... }: every outcome of the loop
\* from slot i on
RECURSIVE SpatterLoop(_, _, _, _, _)
SpatterLoop(st, i, spawnRate, lifeMult, rnd) ==
    IF i > MAX_SPARKS THEN { st }
    ELSE UNION { SpatterLoop(s2, i + 1, spawnRate, lifeMult, rnd)
                   : s2 \in SlotStep(st, i, spawnRate, lifeMult, rnd) }

\* the clearing loop stopping one slot short (i < MAX_SPARKS - 1)
Cleared_KeepsLast(pool) ==
    [pool EXCEPT !.life = [i \in Slots |-> IF i < MAX_SPARKS THEN 0 ELSE pool.life[i]]]

\* the else branch: for (i ...) lifes[i] = 0
Cleared(pool) == [pool EXCEPT !.life = [i \in Slots |-> 0]]

\* the condition of the Spatter Update block, on the animation refs
SpatterActive(r) == r.isRunning /\ ~r.isEmergencyStopped /\ r.hasTool

\* one call of animate() on the pool: the set of its outcomes
\* [pool, spawned, rolls]
SpatterUpdate(pool, r, rnd) ==
    IF SpatterActive(r)
    THEN SpatterLoop([pool |-> pool, spawned |-> 0, rolls |-> 0], 1,
                     SpawnRate(r.spatterDensity), r.spatterLife, rnd)
    ELSE { [pool |-> Cleared(pool), spawned |-> 0, rolls |-> 0] }

-----------------------------------------------------------------------------
(* Health analysis: analyzeTelemetryHealth and the overlay of Robot3DViewer *)

\* the record analyzeTelemetryHealth returns from its catch block
FALLBACK_HEALTH ==
    [healthScore |-> 50, state |-> "Unknown",
     briefAnalysis |-> "Analysis engine offline.", nextCalibration |-> "Immediate"]

\* the entry analyzeAll writes for every captured type when a pass starts
SCANNING ==
    [healthScore |-> 100, state |-> "Scanning", briefAnalysis |-> "Acquiring...",
     nextCalibration |-> "--", isScanning |-> TRUE]

\* an object without properties: {}
EmptyObject == [f \in {} |-> 0]

\* response texts of the service: two documents that follow the response
\* schema, a text that is not JSON, and no text
TextNominal == "{healthScore:92,state:Nominal,briefAnalysis:ok,nextCalibration:30d}"
TextFailed == "{healthScore:12,state:Failed,briefAnalysis:worn,nextCalibration:now}"
TextGarbage == "Service unavailable"
TextNone == ""

\* JSON.parse(text): the value, or threw
JsonParse(text) ==
    CASE text = TextNominal ->
           [threw |-> FALSE,
            value |-> [healthScore |-> 92, state |-> "Nominal",
                       briefAnalysis |-> "ok", nextCalibration |-> "30d"]]
      [] text = TextFailed ->
           [threw |-> FALSE,
            value |-> [healthScore |-> 12, state |-> "Failed",
                       briefAnalysis |-> "worn", nextCalibration |-> "now"]]
      [] text = "{}" -> [threw |-> FALSE, value |-> EmptyObject]
      [] OTHER -> [threw |-> TRUE, value |-> EmptyObject]

\* the outcomes of ai.models.generateContent: it throws (network, key,
\* quota), or it returns a response with a text
ServiceThrows == [threw |-> TRUE, text |-> TextNone]

Responses ==
    { ServiceThrows }
      \cup { [threw |-> FALSE, text |-> t] : t \in {TextNominal, TextFailed, TextGarbage, TextNone} }

\* one outcome for each way analyzeTelemetryHealth can end: a parsed
\* document, no text, a throw
ResponsesBrief ==
    { ServiceThrows, [threw |-> FALSE, text |-> TextNominal], [threw |-> FALSE, text |-> TextNone] }

\* analyzeTelemetryHealth with a catch block that returns nothing
AnalyzeTelemetryHealth_EmptyCatch(resp) ==
    IF resp.threw THEN EmptyObject
    ELSE LET parsed == JsonParse(IF resp.text = TextNone THEN "{}" ELSE resp.text)
         IN  IF parsed.threw THEN EmptyObject ELSE parsed.value

\* analyzeTelemetryHealth: what the promise resolves to for an outcome of
\* the service call; JSON.parse(response.text || '{}') inside the try
AnalyzeTelemetryHealth(resp) ==
    IF resp.threw THEN FALLBACK_HEALTH
    ELSE LET parsed == JsonParse(IF resp.text = TextNone THEN "{}" ELSE resp.text)
         IN  IF parsed.threw THEN FALLBACK_HEALTH ELSE parsed.value

\* { ...analysis, isScanning: false }
Updated(analysis) ==
    [f \in DOMAIN analysis \cup {"isScanning"} |->
        IF f = "isScanning" THEN FALSE ELSE analysis[f]]

\* healthOverlay of a viewer instance right after construction: {}
EmptyOverlay == [t \in {} |-> SCANNING]

\* results of analyzeAll: a Scanning entry for every captured type
Placeholders(ic) == [t \in {ic[i].type : i \in 1..Len(ic)} |-> SCANNING]

\* the updater keeping an entry that exists: { [type]: updated, ...prev }
Merge_KeepsExisting(prev, type, updated) ==
    [t \in DOMAIN prev \cup {type} |-> IF t \in DOMAIN prev THEN prev[t] ELSE updated]

\* { ...prev, [type]: updated }
Merge(prev, type, updated) ==
    [t \in DOMAIN prev \cup {type} |-> IF t = type THEN updated ELSE prev[t]]

\* the overlay render: for an installed type with an entry that is not
\* scanning, health.state.toUpperCase() throws when the entry has no state
RenderThrows(overlay, ic) ==
    \E i \in 1..Len(ic) :
        /\ ic[i].type \in DOMAIN overlay
        /\ ~overlay[ic[i].type].isScanning
        /\ "state" \notin DOMAIN overlay[ic[i].type]

\* the loop without await: every remaining request is issued at once
Issued_AllAtOnce(id, comps, idx) ==
    { [pass |-> id, comps |-> comps, idx |-> k, live |-> TRUE, hung |-> FALSE]
        : k \in idx..Len(comps) }

\* the requests analyzeAll issues when its loop reaches index idx of the
\* captured components: the one for that component, awaited before the loop
\* goes on; none past the end
Issued(id, comps, idx) ==
    IF idx <= Len(comps)
    THEN { [pass |-> id, comps |-> comps, idx |-> idx, live |-> TRUE, hung |-> FALSE] }
    ELSE {}

\* the slot name a request is for
TypeOf(r) == r.comps[r.idx].type

\* requests whose viewer instance is gone: their setHealthOverlay is ignored
Orphaned(reqs) == { [r EXCEPT !.live = FALSE] : r \in reqs }

\* a request awaited with a time limit: it completes in any case
Completes_Always(r) == TRUE

\* await ai.models.generateContent(...) has no time limit and no abort: the
\* request completes only if the service ever answers
Completes(r) == ~r.hung

\* the service decides whether the requests just issued will ever complete
Sent(reqs, h) == { [r EXCEPT !.hung = h] : r \in reqs }

-----------------------------------------------------------------------------
(* State *)

VARIABLES
    \* App: React state (useState)
    currentPage, gravity, friction, torque, simRunning, isEmergencyStopped,
    jointState, spatterDensity, spatterLife, installedComponents, draggedItem,
    errorLog, isDiagnosing,
    \* App: simRef.current, and whether a requestAnimationFrame(render) of the
    \* physics effect is pending
    simRef, physicsLoop,
    \* resolveRoboticsError requests awaiting their result
    diagInFlight,
    \* Robot3DViewer: live animate() loops, the animation refs and the particle
    \* buffers of the mounted instance
    viewerLoops, refs, pool,
    \* observation: integrator invocations, animation frames that ran the
    \* physics callback, and for the last animate() call the spawn rolls made,
    \* the slots spawned and the non-zero lives cleared
    steps, frames, tickInfo,
    \* exploration envelope of the specification (fixed by Init) and the
    \* handler invocations made so far
    env, ops,
    \* a second run of the integrator, used by the two-run specification only
    twin,
    \* Robot3DViewer: healthOverlay of the mounted instance, the
    \* analyzeTelemetryHealth requests in flight and the passes started
    healthOverlay, requests, passCount,
    \* the React tree was unmounted by an error thrown while rendering
    crashed,
    \* observation: the last analysis request that completed
    lastResponse

vars ==
    << currentPage, gravity, friction, torque, simRunning, isEmergencyStopped,
       jointState, spatterDensity, spatterLife, installedComponents, draggedItem,
       errorLog, isDiagnosing, simRef, physicsLoop, diagInFlight, viewerLoops,
       refs, pool, steps, frames, tickInfo, env, ops, twin,
       healthOverlay, requests, passCount, crashed, lastResponse >>

params == << gravity, friction, torque >>
spatter == << spatterDensity, spatterLife >>
runFlags == << simRunning, isEmergencyStopped >>
build == << installedComponents, draggedItem >>
diag == << errorLog, isDiagnosing, diagInFlight >>
physics == << simRef, jointState, physicsLoop, steps >>
view == << viewerLoops, refs, pool, tickInfo >>
fixed == << env, twin >>
health == << healthOverlay, requests, passCount, lastResponse >>

(* Inputs *)

\* the pages of enum Page the model visits
Pages == {"home", "simulation", "diagnostics"}
\* slider values: gravity (tenths), friction (hundredths), torque
Gravities == {98, 0}
Frictions == {10, 50}
Torques == {50, -200}
\* spatterDensity (hundredths, slider step 0.05) and spatterLife (tenths)
Densities == {50, 5, 0}
Lives == {10, 1}
\* the inventory entries the user drags: the actuator and the chassis
DragItems == {2, 5}
\* what the user puts into the error-log box: the first two presets
Logs == {PRESET_LOGS[1], PRESET_LOGS[2]}

NoItem == [name |-> "", type |-> "", spec |-> <<>>]

NoTick == [rolls |-> 0, spawned |-> 0, cleared |-> 0]

NoResponse == [pass |-> 0, type |-> "", resp |-> ServiceThrows, applied |-> FALSE]

\* the props Robot3DViewer copies into its refs (ref-sync effect); isRunning
\* is passed as simRunning && !isEmergencyStopped
SyncedRefs(running, estop, ic, density, life) ==
    [isRunning          |-> running /\ ~estop,
     isEmergencyStopped |-> estop,
     hasTool            |-> HasKey(ic, "Tool"),
     spatterDensity     |-> density,
     spatterLife        |-> life]

\* the guard of the physics effect without its isEmergencyStopped test
PhysicsActive_IgnoresEStop(page, running, estop) ==
    page = "simulation" /\ running

\* the guard of the physics effect
PhysicsActive(page, running, estop) ==
    page = "simulation" /\ running /\ ~estop

\* the second run of the two-run specification: a joint state, a torque
\* command and installed components of its own
NoTwin == [sim |-> SimInit, torque |-> 50, ic |-> << COMPONENTS[2], COMPONENTS[4] >>]

\* the state after App is constructed, but for the installed components,
\* the carried joint state, the torque command and the second run
InitBase(e) ==
    /\ currentPage = "home"
    /\ gravity = 98
    /\ friction = 10
    /\ simRunning = TRUE
    /\ isEmergencyStopped = FALSE
    /\ spatterDensity = 50
    /\ spatterLife = 10
    /\ draggedItem = NoItem
    /\ errorLog = <<>>
    /\ isDiagnosing = FALSE
    /\ physicsLoop = FALSE
    /\ diagInFlight = 0
    /\ viewerLoops = 0
    /\ refs = SyncedRefs(TRUE, FALSE, <<>>, 50, 10)
    /\ pool = EmptyPool
    /\ steps = 0
    /\ frames = 0
    /\ tickInfo = NoTick
    /\ env = e
    /\ ops = 0
    /\ healthOverlay = EmptyOverlay
    /\ requests = {}
    /\ passCount = 0
    /\ crashed = FALSE
    /\ lastResponse = NoResponse

\* the state after App is constructed, with the given components installed
InitApp(ic, e) ==
    /\ InitBase(e)
    /\ torque = 50
    /\ installedComponents = ic
    /\ simRef = SimInit
    /\ jointState = Published(SimInit)
    /\ twin = NoTwin

\* the application as constructed: the actuator and the tool installed
Init ==
    InitApp(<< COMPONENTS[2], COMPONENTS[4] >>,
            [stepLimit |-> MaxSteps, opLimit |-> MaxOps, rnd |-> RandSmall,
             twinned |-> FALSE, responses |-> ResponsesBrief, hangs |-> {FALSE}])

-----------------------------------------------------------------------------
(* Commit: the effects React runs after a handler has updated the state    *)

\* the refs of a viewer instance when its mount effect runs: the useRef
\* initial values, hasToolRef still false
MountRefs(running, estop, density, life) ==
    [SyncedRefs(running, estop, <<>>, density, life) EXCEPT !.hasTool = FALSE]

\* App's "Simulation Physics Loop" effect, run when one of its dependencies
\* changed (icReplaced: setInstalledComponents stored a new object): the
\* cleanup cancels the pending frame; under the guard, render() is called at
\* once (one integrator step, setJointState) and requests the next frame
PhysicsEffect(icReplaced) ==
    LET depsChanged ==
            \/ icReplaced
            \/ << currentPage', simRunning', gravity', friction', torque', isEmergencyStopped' >>
                 # << currentPage, simRunning, gravity, friction, torque, isEmergencyStopped >>
    IN  IF depsChanged
        THEN IF PhysicsActive(currentPage', simRunning', isEmergencyStopped')
             THEN /\ steps < env.stepLimit
                  /\ simRef' = Integrate(simRef, gravity', friction', torque', installedComponents')
                  /\ jointState' = Published(simRef')
                  /\ physicsLoop' = TRUE
                  /\ steps' = steps + 1
             ELSE /\ physicsLoop' = FALSE
                  /\ UNCHANGED << simRef, jointState, steps >>
        ELSE UNCHANGED physics

\* Robot3DViewer, rendered on the simulation page only.  Mount: fresh
\* buffers, a first animate() call and one more live loop, then the ref-sync
\* effect.  Unmount: the instance is dropped (its loop is not cancelled).
\* Otherwise the ref-sync effect copies the props into the refs.
ViewerEffects ==
    LET synced == SyncedRefs(simRunning', isEmergencyStopped', installedComponents',
                             spatterDensity', spatterLife')
    IN  IF currentPage' = "simulation" /\ currentPage # "simulation"
        THEN /\ viewerLoops < MaxMounts
             /\ viewerLoops' = viewerLoops + 1
             /\ \E out \in SpatterUpdate(EmptyPool,
                                         MountRefs(simRunning', isEmergencyStopped',
                                                   spatterDensity', spatterLife'),
                                         env.rnd) :
                    pool' = out.pool
             /\ refs' = synced
             /\ tickInfo' = NoTick
        ELSE IF currentPage' # "simulation" /\ currentPage = "simulation"
        THEN /\ pool' = EmptyPool
             /\ tickInfo' = NoTick
             /\ UNCHANGED << viewerLoops, refs >>
        ELSE IF currentPage' = "simulation"
        THEN /\ refs' = synced
             /\ UNCHANGED << viewerLoops, pool, tickInfo >>
        ELSE UNCHANGED view

\* Robot3DViewer's analyzeAll effect (dependencies: installedComponents,
\* isRunning), together with the overlay state of the instance.  When the
\* effect runs with isRunning true a pass starts: a Scanning entry for every
\* key of the captured components replaces the overlay and the request for
\* the first one is issued.  A new instance starts with an empty overlay; the
\* requests of an instance that is unmounted go on without it.
AnalysisEffect(icReplaced) ==
    LET mounted      == currentPage = "simulation"
        mountedNew   == currentPage' = "simulation"
        isRunning    == simRunning /\ ~isEmergencyStopped
        isRunningNew == simRunning' /\ ~isEmergencyStopped'
        triggered    == mountedNew /\ (~mounted \/ icReplaced \/ isRunningNew # isRunning)
    IN  /\ IF triggered /\ isRunningNew
           THEN /\ passCount < MaxPasses
                /\ passCount' = passCount + 1
                /\ healthOverlay' = Placeholders(installedComponents')
                /\ \E h \in env.hangs :
                      requests' = requests
                                    \cup Sent(Issued(passCount + 1, installedComponents', 1), h)
           ELSE IF mounted /\ ~mountedNew
           THEN /\ healthOverlay' = EmptyOverlay
                /\ requests' = Orphaned(requests)
                /\ UNCHANGED passCount
           ELSE IF mountedNew /\ ~mounted
           THEN /\ healthOverlay' = EmptyOverlay
                /\ UNCHANGED << requests, passCount >>
           ELSE UNCHANGED << healthOverlay, requests, passCount >>
        /\ UNCHANGED lastResponse

\* one more handler invocation, within the envelope; no handler is left once
\* the tree is unmounted
Budget == ~crashed /\ ops < env.opLimit /\ ops' = ops + 1

\* the second run of a two-run specification sees the same events: it takes
\* an integrator step whenever the application does, with the same gravity
\* and friction and with its own joint state, torque command and components
Mirror ==
    twin' = IF env.twinned /\ steps' = steps + 1
            THEN [twin EXCEPT !.sim = Integrate(twin.sim, gravity', friction',
                                                twin.torque, twin.ic)]
            ELSE twin

Commit(icReplaced) ==
    /\ Budget
    /\ PhysicsEffect(icReplaced)
    /\ ViewerEffects
    /\ AnalysisEffect(icReplaced)
    /\ Mirror
    /\ UNCHANGED << frames, env, crashed >>

-----------------------------------------------------------------------------
(* Handlers *)

\* Navbar setPage / setCurrentPage
SetPage(p) ==
    /\ p # currentPage
    /\ currentPage' = p
    /\ UNCHANGED << params, spatter, runFlags, build, diag >>
    /\ Commit(FALSE)

\* the Gravity slider
SetGravity(g) ==
    /\ currentPage = "simulation"
    /\ g # gravity
    /\ gravity' = g
    /\ UNCHANGED << currentPage, friction, torque, spatter, runFlags, build, diag >>
    /\ Commit(FALSE)

\* the Friction slider
SetFriction(f) ==
    /\ currentPage = "simulation"
    /\ f # friction
    /\ friction' = f
    /\ UNCHANGED << currentPage, gravity, torque, spatter, runFlags, build, diag >>
    /\ Commit(FALSE)

\* the torque slider
SetTorque(tq) ==
    /\ currentPage = "simulation"
    /\ tq # torque
    /\ torque' = tq
    /\ UNCHANGED << currentPage, gravity, friction, spatter, runFlags, build, diag >>
    /\ Commit(FALSE)

\* the Weld Spatter Density slider
SetSpatterDensity(d) ==
    /\ currentPage = "simulation"
    /\ d # spatterDensity
    /\ spatterDensity' = d
    /\ UNCHANGED << currentPage, params, spatterLife, runFlags, build, diag >>
    /\ Commit(FALSE)

\* the Lifespan Multiplier slider
SetSpatterLife(l) ==
    /\ currentPage = "simulation"
    /\ l # spatterLife
    /\ spatterLife' = l
    /\ UNCHANGED << currentPage, params, spatterDensity, runFlags, build, diag >>
    /\ Commit(FALSE)

\* the Stop Sim / Start Sim button
ToggleSim ==
    /\ currentPage = "simulation"
    /\ simRunning' = ~simRunning
    /\ UNCHANGED << currentPage, params, spatter, isEmergencyStopped, build, diag >>
    /\ Commit(FALSE)

\* Reset Vectors resetting the angles only
ResetVectors_KeepsVelocity ==
    /\ currentPage = "simulation"
    /\ simRef' = [SimInit EXCEPT !.omega1 = simRef.omega1, !.omega2 = simRef.omega2]
    /\ Budget
    /\ UNCHANGED << currentPage, params, spatter, runFlags, build, diag,
                    jointState, physicsLoop, steps, view, frames, fixed,
                    health, crashed >>

\* the Reset Vectors button: simRef.current is replaced, no state is set
ResetVectors ==
    /\ currentPage = "simulation"
    /\ simRef' = SimInit
    /\ Budget
    /\ UNCHANGED << currentPage, params, spatter, runFlags, build, diag,
                    jointState, physicsLoop, steps, view, frames, fixed,
                    health, crashed >>

\* the Reset E-Stop button, shown while emergency-stopped
ResetEStop ==
    /\ currentPage = "simulation"
    /\ isEmergencyStopped
    /\ isEmergencyStopped' = FALSE
    /\ UNCHANGED << currentPage, params, spatter, simRunning, build, diag >>
    /\ Commit(FALSE)

\* the test looking for phrases the logs do not carry
IsSafetyLog_OtherPhrases(input) ==
    LogIncludes(input, "Human detected") \/ LogIncludes(input, "SAFETY_ALARM")

\* input.includes('Human profile identified') || input.includes('CRITICAL_SAFETY_ALARM')
IsSafetyLog(input) ==
    LogIncludes(input, "Human profile identified") \/ LogIncludes(input, "CRITICAL_SAFETY_ALARM")

\* the safety auto-halt without its setSimRunning(false)
HandleRunDiagnostics_KeepsRunning(input, estop, running, diagnosing) ==
    IF IsBlank(input)
    THEN [estop |-> estop, running |-> running, diagnosing |-> diagnosing, issued |-> FALSE]
    ELSE [estop      |-> estop \/ IsSafetyLog(input),
          running    |-> running,
          diagnosing |-> TRUE,
          issued     |-> TRUE]

\* handleRunDiagnostics up to its await, from the values the state setters
\* queued before it: the emergency-stop flag, the running flag, isDiagnosing
\* and whether a request is issued
HandleRunDiagnostics(input, estop, running, diagnosing) ==
    IF IsBlank(input)
    THEN [estop |-> estop, running |-> running, diagnosing |-> diagnosing, issued |-> FALSE]
    ELSE [estop      |-> estop \/ IsSafetyLog(input),
          running    |-> running /\ ~IsSafetyLog(input),
          diagnosing |-> TRUE,
          issued     |-> TRUE]

\* the Simulate Human Intrusion button
SimulateHumanIntrusion ==
    LET r == HandleRunDiagnostics(PRESET_LOGS[1], TRUE, FALSE, isDiagnosing)
    IN  /\ currentPage = "simulation"
        /\ diagInFlight < MaxInFlight
        /\ isEmergencyStopped' = r.estop
        /\ simRunning' = r.running
        /\ isDiagnosing' = r.diagnosing
        /\ diagInFlight' = diagInFlight + (IF r.issued THEN 1 ELSE 0)
        /\ UNCHANGED << currentPage, params, spatter, build, errorLog >>
        /\ Commit(FALSE)

\* the error-log box and the preset buttons of the diagnostics page
SetErrorLog(log) ==
    /\ currentPage = "diagnostics"
    /\ log # errorLog
    /\ errorLog' = log
    /\ UNCHANGED << currentPage, params, spatter, runFlags, build, isDiagnosing, diagInFlight >>
    /\ Commit(FALSE)

\* the diagnostics button (disabled while isDiagnosing): handleRunDiagnostics()
RunDiagnostics ==
    LET r == HandleRunDiagnostics(errorLog, isEmergencyStopped, simRunning, isDiagnosing)
    IN  /\ currentPage = "diagnostics"
        /\ ~isDiagnosing
        /\ diagInFlight < MaxInFlight
        /\ isEmergencyStopped' = r.estop
        /\ simRunning' = r.running
        /\ isDiagnosing' = r.diagnosing
        /\ diagInFlight' = diagInFlight + (IF r.issued THEN 1 ELSE 0)
        /\ UNCHANGED << currentPage, params, spatter, build, errorLog >>
        /\ Commit(FALSE)

\* a resolveRoboticsError request returns (result or fallback record):
\* handleRunDiagnostics after its await
DiagnosticsComplete ==
    /\ diagInFlight > 0
    /\ diagInFlight' = diagInFlight - 1
    /\ isDiagnosing' = FALSE
    /\ UNCHANGED << currentPage, params, spatter, runFlags, build, errorLog >>
    /\ Commit(FALSE)

\* an analyzeTelemetryHealth request of analyzeAll completes with outcome
\* resp of the service call: the result is merged into the overlay under the
\* slot name of the request (ignored when the instance is gone), the overlay
\* is rendered, and the loop of the pass issues its next request.  A render
\* that throws unmounts the tree: the physics effect is cleaned up and the
\* viewer instance dropped.
AnalysisResponse(r, resp) ==
    LET analysis == AnalyzeTelemetryHealth(resp)
        overlay  == IF r.live THEN Merge(healthOverlay, TypeOf(r), Updated(analysis))
                    ELSE healthOverlay
        throws   == r.live /\ RenderThrows(overlay, installedComponents)
        next     == { [q EXCEPT !.live = r.live] : q \in Issued(r.pass, r.comps, r.idx + 1) }
    IN  /\ r \in requests
        /\ Completes(r)
        /\ ops < env.opLimit
        /\ ops' = ops + 1
        /\ healthOverlay' = overlay
        /\ crashed' = (crashed \/ throws)
        /\ \E h \in env.hangs :
              requests' = IF throws THEN Orphaned((requests \ {r}) \cup Sent(next, h))
                          ELSE (requests \ {r}) \cup Sent(next, h)
        /\ lastResponse' = [pass |-> r.pass, type |-> TypeOf(r), resp |-> resp,
                            applied |-> r.live]
        /\ IF throws
           THEN /\ physicsLoop' = FALSE
                /\ pool' = EmptyPool
                /\ tickInfo' = NoTick
           ELSE UNCHANGED << physicsLoop, pool, tickInfo >>
        /\ UNCHANGED << currentPage, params, spatter, runFlags, build, diag,
                        simRef, jointState, steps, frames, viewerLoops, refs,
                        fixed, passCount >>

\* onDragStart of an inventory entry
DragStart(i) ==
    /\ currentPage = "simulation"
    /\ draggedItem # COMPONENTS[i]
    /\ draggedItem' = COMPONENTS[i]
    /\ UNCHANGED << currentPage, params, spatter, runFlags, installedComponents, diag >>
    /\ Commit(FALSE)

\* handleDrop on the viewer panel
HandleDrop ==
    /\ currentPage = "simulation"
    /\ installedComponents' =
          IF draggedItem # NoItem THEN Put(installedComponents, draggedItem)
          ELSE installedComponents
    /\ draggedItem' = NoItem
    /\ UNCHANGED << currentPage, params, spatter, runFlags, diag >>
    /\ Commit(draggedItem # NoItem)

\* one display refresh on the simulation page: the pending render() of the
\* physics effect (one integrator step, setJointState) and the animate() of
\* the mounted viewer (Spatter Update)
AnimationFrame ==
    /\ currentPage = "simulation"
    /\ ~crashed
    /\ IF physicsLoop
       THEN /\ steps < env.stepLimit
            /\ simRef' = Integrate(simRef, gravity, friction, torque, installedComponents)
            /\ jointState' = Published(simRef')
            /\ steps' = steps + 1
            /\ frames' = frames + 1
       ELSE UNCHANGED << simRef, jointState, steps, frames >>
    /\ \E out \in SpatterUpdate(pool, refs, env.rnd) :
          /\ pool' = out.pool
          /\ tickInfo' =
                [rolls   |-> out.rolls,
                 spawned |-> out.spawned,
                 cleared |-> IF SpatterActive(refs) THEN 0
                             ELSE Cardinality({i \in Slots : pool.life[i] # 0})]
    /\ UNCHANGED << currentPage, params, spatter, runFlags, build, diag,
                    physicsLoop, viewerLoops, refs, env, ops, health, crashed >>
    /\ Mirror

Next ==
    \/ \E p \in Pages : SetPage(p)
    \/ \E g \in Gravities : SetGravity(g)
    \/ \E f \in Frictions : SetFriction(f)
    \/ \E tq \in Torques : SetTorque(tq)
    \/ \E d \in Densities : SetSpatterDensity(d)
    \/ \E l \in Lives : SetSpatterLife(l)
    \/ ToggleSim
    \/ ResetVectors
    \/ ResetEStop
    \/ SimulateHumanIntrusion
    \/ \E log \in Logs : SetErrorLog(log)
    \/ RunDiagnostics
    \/ DiagnosticsComplete
    \/ \E r \in requests, resp \in env.responses : AnalysisResponse(r, resp)
    \/ \E i \in DragItems : DragStart(i)
    \/ HandleDrop
    \/ AnimationFrame

Spec == Init /\ [][Next]_vars

-----------------------------------------------------------------------------
(* Properties of the full application (Spec) *)

\* the integrator is frozen: emergency-stopped, not running, or another view
Frozen == isEmergencyStopped \/ ~simRunning \/ currentPage # "simulation"

\* the activation predicate of the particle simulator, on the app state
ParticlesActive ==
    simRunning /\ ~isEmergencyStopped /\ HasKey(installedComponents, "Tool")

\* slots inactive before a step and active after it
Activated == {i \in Slots : pool.life[i] <= 0 /\ pool'.life[i] > 0}

\* slots free (life <= 0) before a step
FreeSlots == {i \in Slots : pool.life[i] <= 0}

\* C1: an operation that leaves the system frozen (emergency-stopped, not
\* running, or off the simulation view) leaves the carried JointState as it
\* was, unless it is the explicit reset, which sets it to the initial values
C1_Freeze ==
    [][Frozen' => (simRef' = simRef \/ (ResetVectors /\ simRef' = SimInit))]_vars

\* C1 witness: emergency-stopped on the simulation view after the joints
\* have moved, and a viewer frame has since run (it cleared live particles)
C1_Witness ==
    /\ isEmergencyStopped
    /\ currentPage = "simulation"
    /\ steps > 1
    /\ simRef # SimInit
    /\ tickInfo.cleared > 0

\* C2: the number of integrator steps taken equals the number of animation
\* frames that ran the physics callback
C2_StepsEqualFrames == steps = frames

\* C3: a viewer frame at which the activation predicate is false leaves
\* every slot with life exactly 0
C3_ClearWhenInactive ==
    [][(AnimationFrame /\ ~ParticlesActive) => \A i \in Slots : pool'.life[i] = 0]_vars

\* C3 witness: the predicate is false, the last viewer frame found live
\* particles, and every life is 0
C3_Witness ==
    /\ currentPage = "simulation"
    /\ ~ParticlesActive
    /\ tickInfo.cleared > 0
    /\ \A i \in Slots : pool.life[i] = 0

\* C4: Reset Vectors leaves JointState = {pi/4, 0, pi/6, 0} from any state
\* and changes neither the run flags, the parameters nor the installed
\* components
C4_Reset ==
    [][ResetVectors =>
        /\ simRef' = [theta1 |-> 785398, omega1 |-> 0, theta2 |-> 523598, omega2 |-> 0]
        /\ UNCHANGED << simRunning, isEmergencyStopped, gravity, friction, torque,
                        spatterDensity, spatterLife, installedComponents, currentPage >>]_vars

\* C4 witness: the carried state is the initial one although the joints have
\* moved (the published pose still shows it), while the simulation is stopped
C4_Witness ==
    /\ simRef = SimInit
    /\ steps > 0
    /\ jointState # Published(SimInit)
    /\ ~simRunning

\* the step of the claim, written from its equations: velocities first, each
\* angle from the velocity already updated, torque on joint 1 only
C5_Damping == (friction' * 5 * (IF HasKey(installedComponents', "Chassis") THEN 8 ELSE 10))

C5_Torque == torque' * MaxTorqueCapacity(installedComponents') * 5000

C5_Omega1 ==
    simRef.omega1
      + Div(C5_Torque - gravity' * SinMicro(simRef.theta1) * 10
              - Div(simRef.omega1, 1000) * C5_Damping, 1000) * 16

C5_Omega2 ==
    simRef.omega2
      + Div(0 - gravity' * SinMicro(simRef.theta2) * 10
              - Div(simRef.omega2, 1000) * C5_Damping, 1000) * 16

\* C5: every integrator step takes JointState to the value the equations of
\* the claim give from JointState, gravity, friction, torqueCommand and the
\* installed components, with dt = 0.016
C5_IntegratorStep ==
    [][steps' = steps + 1 =>
        /\ simRef'.omega1 = C5_Omega1
        /\ simRef'.theta1 = simRef.theta1 + Div(C5_Omega1 * 16, 1000)
        /\ simRef'.omega2 = C5_Omega2
        /\ simRef'.theta2 = simRef.theta2 + Div(C5_Omega2 * 16, 1000)]_vars

\* C5 witness: two steps taken, the last with a Chassis installed and both
\* joints moving
C5_Witness ==
    /\ steps >= 2
    /\ HasKey(installedComponents, "Chassis")
    /\ simRef.omega1 # 0
    /\ simRef.omega2 # 0

\* C8 as claimed: in a viewer frame the spawn roll is made for at most
\* floor(density*20) free slots
C8_RollsWithinBudget ==
    [][AnimationFrame => tickInfo'.rolls <= SpawnRate(spatterDensity)]_vars

\* C8 amended: the budget is consumed by confirmed spawns; the spawn roll is
\* made for every free slot met while fewer than floor(density*20) slots
\* have been spawned in the tick
C8_BudgetCountsSpawns ==
    [][(AnimationFrame /\ ParticlesActive) =>
        /\ tickInfo'.rolls <= Cardinality(FreeSlots)
        /\ Cardinality(Activated) <= tickInfo'.rolls
        /\ Cardinality(Activated) < SpawnRate(spatterDensity)
             => tickInfo'.rolls = Cardinality(FreeSlots)]_vars

\* C8 witness: a tick in which more rolls were made than the budget allows
\* spawns
C8_Witness ==
    /\ currentPage = "simulation"
    /\ ParticlesActive
    /\ SpawnRate(spatterDensity) > 0
    /\ tickInfo.rolls > SpawnRate(spatterDensity)

\* C9: in every viewer frame at most floor(density*20) slots go from
\* inactive to active, whatever the rolls; none when density < 0.05
C9_SpawnsWithinBudget ==
    [][AnimationFrame =>
        /\ Cardinality(Activated) <= SpawnRate(spatterDensity)
        /\ spatterDensity < 5 => Activated = {}]_vars

\* C9 witness: the budget of one spawn was used up by the first free slot
\* and the second free slot was not rolled for
C9_Witness ==
    /\ currentPage = "simulation"
    /\ ParticlesActive
    /\ SpawnRate(spatterDensity) = 1
    /\ tickInfo.spawned = 1
    /\ tickInfo.rolls = 1
    /\ pool.life[1] = 10000
    /\ \E i \in Slots : pool.life[i] <= 0

-----------------------------------------------------------------------------
(* The particle pool over many frames (SpecDeep) *)

InitDeep ==
    InitApp(<< COMPONENTS[2], COMPONENTS[4] >>,
            [stepLimit |-> MaxDeepSteps, opLimit |-> MaxFewOps, rnd |-> RandDecay,
             twinned |-> FALSE, responses |-> Responses, hangs |-> {FALSE}])

NextDeep ==
    \/ \E p \in Pages : SetPage(p)
    \/ \E l \in Lives : SetSpatterLife(l)
    \/ AnimationFrame

SpecDeep == InitDeep /\ [][NextDeep]_vars

\* C10: after every tick every particle's life is in [0,1]; no slot holds a
\* negative life
C10_LifeInUnitRange ==
    \A i \in Slots : pool.life[i] >= 0 /\ pool.life[i] <= 10000

-----------------------------------------------------------------------------
(* The torque capacity for any actuator spec string (SpecActuators) *)

Chars360Nm == <<"3", "6", "0", " ", "N", "m", " ", "P", "e", "a", "k">>
Chars275TOPS == <<"2", "7", "5", " ", "T", "O", "P", "S">>
CharsNmPeak == <<"N", "m", " ", "P", "e", "a", "k">>
CharsPeak90Nm == <<"P", "e", "a", "k", " ", "9", "0", " ", "N", "m">>
Chars40Nm == <<" ", "4", "0", "N", "m">>
CharsHighTorque == <<"H", "i", "g", "h", " ", "t", "o", "r", "q", "u", "e">>

\* spec strings an Actuator entry of the inventory may carry
ActuatorSpecs ==
    {Chars360Nm, Chars275TOPS, CharsNmPeak, CharsPeak90Nm, Chars40Nm, CharsHighTorque}

\* the installed components at start: the tool, and no actuator or an
\* actuator with one of the spec strings
ActuatorBuilds ==
    { << COMPONENTS[4] >> }
      \cup { << [name |-> "Actuator", type |-> "Actuator", spec |-> sp], COMPONENTS[4] >>
               : sp \in ActuatorSpecs }

InitActuators ==
    \E ic \in ActuatorBuilds :
        InitApp(ic, [stepLimit |-> MaxSteps, opLimit |-> MaxFewOps, rnd |-> RandQuiet,
                     twinned |-> FALSE, responses |-> Responses, hangs |-> {FALSE}])

NextActuators ==
    \/ \E p \in Pages : SetPage(p)
    \/ \E tq \in Torques : SetTorque(tq)
    \/ ToggleSim
    \/ AnimationFrame

SpecActuators == InitActuators /\ [][NextActuators]_vars

\* the integer a spec string starts with (before its unit text), by
\* inspection of the string; -1 where it starts with none
C6_LeadingInteger(sp) ==
    CASE sp = Chars360Nm -> 360
      [] sp = Chars275TOPS -> 275
      [] sp = Chars40Nm -> 40
      [] OTHER -> -1

\* maxTorqueCapacity as claimed: the leading integer where there is one,
\* 100 otherwise
C6_ClaimedCapacity ==
    IF HasKey(installedComponents, "Actuator")
       /\ C6_LeadingInteger(Get(installedComponents, "Actuator").spec) >= 0
    THEN C6_LeadingInteger(Get(installedComponents, "Actuator").spec)
    ELSE 100

\* maxTorqueCapacity as amended: the leading integer where there is one and
\* the string contains "Nm", 100 otherwise
C6_AmendedCapacity ==
    IF HasKey(installedComponents, "Actuator")
       /\ C6_LeadingInteger(Get(installedComponents, "Actuator").spec) >= 0
       /\ Get(installedComponents, "Actuator").spec \in {Chars360Nm, Chars40Nm}
    THEN C6_LeadingInteger(Get(installedComponents, "Actuator").spec)
    ELSE 100

\* omega1 after a step whose torque capacity is cap
C6_Omega1(cap) ==
    simRef.omega1
      + Div(torque' * cap * 5000 - gravity' * SinMicro(simRef.theta1) * 10
              - Div(simRef.omega1, 1000) * Damping(friction', installedComponents'),
            1000) * 16

-----------------------------------------------------------------------------
(* Two runs side by side (SpecTwin) *)

TwinTheta1 == {PiMicro \div 4, 100000}
TwinOmega1 == {0, 500000}

\* the builds of a run: with or without the actuator, with or without the
\* chassis
TwinBuilds ==
    { << COMPONENTS[2], COMPONENTS[4] >>, << COMPONENTS[4] >>,
      << COMPONENTS[2], COMPONENTS[4], COMPONENTS[5] >>, << COMPONENTS[4], COMPONENTS[5] >> }

\* two runs that start from the same theta2 and omega2 with the same
\* gravity, friction and chassis
InitTwin ==
    /\ InitBase([stepLimit |-> MaxSteps, opLimit |-> MaxFewOps, rnd |-> RandQuiet,
                 twinned |-> TRUE, responses |-> Responses, hangs |-> {FALSE}])
    /\ torque = 50
    /\ installedComponents \in TwinBuilds
    /\ simRef = SimInit
    /\ jointState = Published(SimInit)
    /\ \E t1 \in TwinTheta1, o1 \in TwinOmega1, tq \in Torques \cup {50}, ic \in TwinBuilds :
          /\ HasKey(ic, "Chassis") <=> HasKey(installedComponents, "Chassis")
          /\ twin = [sim    |-> [SimInit EXCEPT !.theta1 = t1, !.omega1 = o1],
                     torque |-> tq,
                     ic     |-> ic]

NextTwin ==
    \/ \E p \in Pages : SetPage(p)
    \/ \E g \in Gravities : SetGravity(g)
    \/ \E f \in Frictions : SetFriction(f)
    \/ ToggleSim
    \/ AnimationFrame

SpecTwin == InitTwin /\ [][NextTwin]_vars

\* C7: two runs that start from the same theta2 and omega2 with the same
\* gravity, friction and chassis, and differ in torqueCommand, actuator,
\* theta1 or omega1, have equal theta2 and omega2 after every number of ticks
C7_Joint2Passive ==
    /\ simRef.theta2 = twin.sim.theta2
    /\ simRef.omega2 = twin.sim.omega2

\* C7 witness: after two ticks the runs differ in torque command, actuator
\* capacity, theta1 and omega1, and joint 2 has moved
C7_Witness ==
    /\ steps >= 2
    /\ torque # twin.torque
    /\ MaxTorqueCapacity(installedComponents) # MaxTorqueCapacity(twin.ic)
    /\ simRef.theta1 # twin.sim.theta1
    /\ simRef.omega1 # twin.sim.omega1
    /\ simRef.omega2 # 0
    /\ simRef.theta2 # SimInit.theta2

-----------------------------------------------------------------------------
(* Particles that reach the floor (SpecFloor) *)

\* spawns thrown straight down at nearly the largest spread
RandFar ==
    [roll |-> {0, 750}, angle |-> {750}, spread |-> {950}, up |-> {0}, decay |-> {0}]

InitFloor ==
    InitApp(<< COMPONENTS[2], COMPONENTS[4] >>,
            [stepLimit |-> MaxDeepSteps, opLimit |-> MaxFewOps, rnd |-> RandFar,
             twinned |-> FALSE, responses |-> Responses, hangs |-> {FALSE}])

NextFloor ==
    \/ \E p \in Pages : SetPage(p)
    \/ \E d \in Densities : SetSpatterDensity(d)
    \/ AnimationFrame

SpecFloor == InitFloor /\ [][NextFloor]_vars

\* C11: in an active tick, a particle whose y is below -1.5 after its
\* position update ends the tick with life exactly 0
C11_FloorRetirement ==
    [][(AnimationFrame /\ ParticlesActive) =>
        \A i \in Slots :
            (pool.life[i] > 0 /\ pool.pos[i][2] + pool.vel[i][2] < -15000)
               => pool'.life[i] = 0]_vars

\* C11 witness: a slot below the floor with life 0 whose last move took it
\* across the floor, in a pool that is active
C11_Witness ==
    /\ currentPage = "simulation"
    /\ ParticlesActive
    /\ \E i \in Slots :
          /\ pool.pos[i][2] < -15000
          /\ pool.pos[i][2] - (pool.vel[i][2] + 100) >= -15000
          /\ pool.life[i] = 0

\* C12: the number of active particles is between 0 and the pool capacity,
\* and the three buffers keep exactly the capacity's slots
C12_PoolSize ==
    /\ DOMAIN pool.life = 1..MAX_SPARKS
    /\ DOMAIN pool.pos = 1..MAX_SPARKS
    /\ DOMAIN pool.vel = 1..MAX_SPARKS
    /\ Cardinality({i \in DOMAIN pool.life : pool.life[i] > 0}) \in 0..MAX_SPARKS

\* C12 witness: every slot of the pool is active
C12_Witness ==
    /\ currentPage = "simulation"
    /\ \A i \in 1..MAX_SPARKS : pool.life[i] > 0

-----------------------------------------------------------------------------
(* Components (Spec) *)

\* the slot names that are filled
Filled(ic) == {ic[i].type : i \in 1..Len(ic)}

\* C20: the set of filled slot names only grows; a drop with a dragged item
\* replaces exactly the slot named by the item's type and leaves every other
\* slot as it was; a drop with no dragged item leaves the mapping unchanged
C20_ComponentsNeverRemoved ==
    [][/\ Filled(installedComponents) \subseteq Filled(installedComponents')
       /\ HandleDrop =>
            IF draggedItem = NoItem
            THEN installedComponents' = installedComponents
            ELSE /\ Get(installedComponents', draggedItem.type) = draggedItem
                 /\ Filled(installedComponents')
                      = Filled(installedComponents) \cup {draggedItem.type}
                 /\ \A t \in Filled(installedComponents) \ {draggedItem.type} :
                       Get(installedComponents', t) = Get(installedComponents, t)]_vars

\* C20 witness: a Chassis was dropped in, the two components installed at
\* the start are still there
C20_Witness ==
    /\ Filled(installedComponents) = {"Actuator", "Tool", "Chassis"}
    /\ Get(installedComponents, "Actuator") = COMPONENTS[2]
    /\ Get(installedComponents, "Tool") = COMPONENTS[4]
    /\ draggedItem = NoItem

-----------------------------------------------------------------------------
(* The health overlay under every outcome of the service (SpecHealth) *)

InitHealth ==
    InitApp(<< COMPONENTS[2], COMPONENTS[4] >>,
            [stepLimit |-> MaxSteps, opLimit |-> MaxOps, rnd |-> RandQuiet,
             twinned |-> FALSE, responses |-> Responses, hangs |-> {FALSE, TRUE}])

NextHealth ==
    \/ \E p \in Pages : SetPage(p)
    \/ ToggleSim
    \/ \E i \in DragItems : DragStart(i)
    \/ HandleDrop
    \/ \E r \in requests, resp \in env.responses : AnalysisResponse(r, resp)
    \/ AnimationFrame

SpecHealth == InitHealth /\ [][NextHealth]_vars

\* a request by the pass and the index it is for
Slot(r) == << r.pass, r.idx >>

InFlight == {Slot(r) : r \in requests}

\* the requests that are in flight after a step and were not before it
NewlyIssued == {r \in requests' : Slot(r) \notin InFlight}

\* the service call of the response failed: it threw, or its text is not JSON
Failed(resp) == resp.threw \/ resp.text = TextGarbage

\* C13: in every state with an analysis request in flight, an animation
\* frame can advance the joint integrator whenever the integrator's own
\* activation predicate holds
C13_AnalysisNeverBlocks ==
    (/\ requests # {}
     /\ currentPage = "simulation" /\ simRunning /\ ~isEmergencyStopped
     /\ steps < env.stepLimit)
      => ENABLED (AnimationFrame /\ steps' = steps + 1)

\* C14: starting a pass cancels no request in flight, and the result of a
\* request of an earlier pass is applied under its slot name, where it
\* replaces the Scanning entry a newer pass wrote
C14_StaleResultsApplied ==
    [][/\ passCount' = passCount + 1 => InFlight \subseteq {Slot(r) : r \in requests'}
       /\ \A r \in requests, resp \in env.responses :
            (AnalysisResponse(r, resp) /\ r.live /\ r.pass < passCount)
               => /\ TypeOf(r) \in DOMAIN healthOverlay'
                  /\ ~healthOverlay'[TypeOf(r)].isScanning]_vars

\* C14 witness: the last result applied came from an earlier pass, while the
\* newest pass has not yet had a result for that slot name; the entry shows
\* the stale result
C14_Witness ==
    /\ lastResponse.applied
    /\ lastResponse.pass < passCount
    /\ lastResponse.type \in DOMAIN healthOverlay
    /\ healthOverlay[lastResponse.type].isScanning = FALSE
    /\ healthOverlay[lastResponse.type].state = "Nominal"
    /\ \E q \in requests :
          /\ q.live
          /\ q.pass = passCount
          /\ \E k \in q.idx..Len(q.comps) : q.comps[k].type = lastResponse.type

\* C15: a pass has at most one request in flight; its first request is for
\* the first component of the mapping captured when the pass is triggered,
\* and each further one is for the next component of that mapping, issued
\* in the step in which the preceding request of the pass completes
C15_OneRequestPerPass ==
    [][/\ \A r1, r2 \in requests' : r1.pass = r2.pass => r1.idx = r2.idx
       /\ \A q \in NewlyIssued :
            \/ /\ q.idx = 1
               /\ passCount' = passCount + 1
               /\ q.pass = passCount'
               /\ q.comps = installedComponents'
            \/ /\ q.idx > 1
               /\ \E r \in requests :
                     /\ r.pass = q.pass /\ r.idx = q.idx - 1 /\ r.comps = q.comps
                     /\ Slot(r) \notin {Slot(x) : x \in requests'}]_vars

\* C15 witness: the second request of a pass is in flight, the first having
\* completed, while the installed components have changed since the pass
\* captured them
C15_Witness ==
    \E r \in requests :
        /\ r.idx = 2
        /\ r.live
        /\ lastResponse.pass = r.pass
        /\ lastResponse.type = r.comps[1].type
        /\ r.comps # installedComponents

\* the four fields of a health record
HealthFields == {"healthScore", "state", "briefAnalysis", "nextCalibration"}

\* C16: a pass that starts sets the entry of every installed component to
\* the Scanning placeholder; an entry leaves Scanning only in a step that
\* applies a result for its slot name, and then has the four returned fields
\* and isScanning false
C16_ScanningUntilResult ==
    [][/\ passCount' = passCount + 1 =>
            \A t \in Filled(installedComponents') :
                /\ t \in DOMAIN healthOverlay'
                /\ healthOverlay'[t].isScanning
                /\ healthOverlay'[t].state = "Scanning"
       /\ \A t \in DOMAIN healthOverlay \cap DOMAIN healthOverlay' :
            (healthOverlay[t].isScanning /\ ~healthOverlay'[t].isScanning)
               => /\ \E r \in requests, resp \in env.responses :
                        AnalysisResponse(r, resp) /\ TypeOf(r) = t
                  /\ DOMAIN healthOverlay'[t] = HealthFields \cup {"isScanning"}]_vars

\* C17: when the service call fails, analyzeTelemetryHealth resolves to the
\* fixed fallback record (nothing is thrown), the record is what the overlay
\* shows for the slot, and the pass goes on to its next component
C17_FailureFallsBack ==
    [][\A r \in requests, resp \in env.responses :
          (AnalysisResponse(r, resp) /\ Failed(resp))
             => /\ crashed' = crashed
                /\ r.live =>
                     healthOverlay'[TypeOf(r)] =
                        [healthScore |-> 50, state |-> "Unknown",
                         briefAnalysis |-> "Analysis engine offline.",
                         nextCalibration |-> "Immediate", isScanning |-> FALSE]
                /\ r.idx < Len(r.comps) =>
                     << r.pass, r.idx + 1 >> \in {Slot(x) : x \in requests'}]_vars

\* C17 witness: the last response was a text that is not JSON, the slot shows
\* the fallback record and the next request of the pass is in flight
C17_Witness ==
    /\ lastResponse.applied
    /\ lastResponse.resp.text = TextGarbage
    /\ healthOverlay[lastResponse.type].state = "Unknown"
    /\ healthOverlay[lastResponse.type].healthScore = 50
    /\ ~crashed
    /\ \E q \in requests : q.pass = lastResponse.pass /\ q.idx = 2 /\ q.live

\* C18: no overlay entry with isScanning false lacks a state or a
\* healthScore
C18_CompleteRecords ==
    \A t \in DOMAIN healthOverlay :
        ~healthOverlay[t].isScanning =>
            {"state", "healthScore"} \subseteq DOMAIN healthOverlay[t]

\* the requests of the mounted instance that will never complete, for a
\* slot whose entry is Scanning
HungScanning ==
    {r \in requests : /\ r.hung /\ r.live
                      /\ TypeOf(r) \in DOMAIN healthOverlay
                      /\ healthOverlay[TypeOf(r)].isScanning}

\* C19 as claimed: while the instance lives, the entry of a slot whose call
\* never completes stays Scanning whatever happens
C19_HungStaysScanning ==
    [][\A r \in HungScanning :
          TypeOf(r) \in DOMAIN healthOverlay' => healthOverlay'[TypeOf(r)].isScanning]_vars

\* C19 amended: the entry of a slot whose call never completes leaves
\* Scanning only in a step that applies the result of a request of another
\* pass for the same slot name; the hung request stays in flight and its
\* pass issues no further request
C19_HungUntilOtherPass ==
    [][\A r \in HungScanning :
          /\ TypeOf(r) \in DOMAIN healthOverlay' =>
                \/ healthOverlay'[TypeOf(r)].isScanning
                \/ \E q \in requests, resp \in env.responses :
                      /\ AnalysisResponse(q, resp)
                      /\ q.pass # r.pass
                      /\ TypeOf(q) = TypeOf(r)
          /\ Slot(r) \in {Slot(x) : x \in requests'}
          /\ \A x \in requests' : x.pass = r.pass => x.idx = r.idx]_vars

\* C19 witness: the second request of a pass hangs; frames have run since
\* and its entry is still Scanning beside the finished entry of the first
C19_Witness ==
    \E r \in HungScanning :
        /\ r.idx = 2
        /\ frames > 0
        /\ tickInfo.cleared = 0 /\ currentPage = "simulation"
        /\ ~healthOverlay[r.comps[1].type].isScanning

-----------------------------------------------------------------------------
(* The numeric scenario: torque command 0 (SpecScenario) *)

\* the application with the torque slider at 0 and the joints at their
\* initial values (stopped, slider moved, Reset Vectors, left the view):
\* gravity 9.8, friction 0.1, the "360 Nm Peak" actuator and the tool
InitScenario ==
    /\ InitBase([stepLimit |-> MaxDeepSteps, opLimit |-> MaxFewOps, rnd |-> RandQuiet,
                 twinned |-> FALSE, responses |-> Responses, hangs |-> {FALSE}])
    /\ torque = 0
    /\ installedComponents = << COMPONENTS[2], COMPONENTS[4] >>
    /\ simRef = SimInit
    /\ jointState = Published(SimInit)
    /\ twin = NoTwin

NextScenario ==
    \/ \E p \in Pages : SetPage(p)
    \/ \E f \in Frictions : SetFriction(f)
    \/ ToggleSim
    \/ ResetVectors
    \/ AnimationFrame

SpecScenario == InitScenario /\ [][NextScenario]_vars

\* a tick of the scenario: an integrator step from the initial JointState
\* with gravity 9.8, friction 0.1, torque command 0 and the 360 Nm actuator
C21_ScenarioTick ==
    /\ steps' = steps + 1
    /\ simRef = [theta1 |-> 785398, omega1 |-> 0, theta2 |-> 523598, omega2 |-> 0]
    /\ gravity' = 98 /\ friction' = 10 /\ torque' = 0
    /\ HasKey(installedComponents', "Actuator")
    /\ Get(installedComponents', "Actuator").spec = Chars360Nm

\* 0.016 * (0 - 9.8*sin(pi/4) - 0*0.5), in micro-units
C21_Increment == Div(0 - 98 * SinMicro(785398) * 10 - 0 * 500, 1000) * 16

\* C21 as claimed: the tick of the scenario makes omega1 negative and theta1
\* smaller than pi/4, and theta1 becomes pi/4 + 0.016*(0 - 9.8*sin(pi/4) - 0*0.5)
C21_ThetaByOneDt ==
    [][C21_ScenarioTick =>
        /\ simRef'.omega1 < 0
        /\ simRef'.theta1 < 785398
        /\ simRef'.theta1 = 785398 + C21_Increment]_vars

\* C21 amended: the tick of the scenario makes omega1 equal to
\* 0.016*(0 - 9.8*sin(pi/4) - 0*0.5), which is negative, and theta1 equal to
\* pi/4 + 0.016*omega1, which is smaller than pi/4
C21_ThetaByTwoDt ==
    [][C21_ScenarioTick =>
        /\ simRef'.omega1 = C21_Increment
        /\ simRef'.omega1 < 0
        /\ simRef'.theta1 = 785398 + Div(C21_Increment * 16, 1000)
        /\ simRef'.theta1 < 785398]_vars

\* C21 witness: one tick was taken with the parameters of the scenario and
\* joint 1 has fallen by less than two thousandths of a radian
C21_Witness ==
    /\ steps = 1
    /\ gravity = 98 /\ friction = 10 /\ torque = 0
    /\ Get(installedComponents, "Actuator").spec = Chars360Nm
    /\ simRef.omega1 < 0
    /\ simRef.theta1 < 785398
    /\ simRef.theta1 > 785398 - 2000

-----------------------------------------------------------------------------
(* Spawns in every direction (SpecSpawn) *)

\* draws at both ends of the range of Math.random() for the spread and the
\* upward speed, and angles in three quadrants
RandWide ==
    [roll |-> {0, 750}, angle |-> {0, 125, 750}, spread |-> {0, 999}, up |-> {0, 999},
     decay |-> {0}]

InitSpawn ==
    InitApp(<< COMPONENTS[2], COMPONENTS[4] >>,
            [stepLimit |-> MaxSteps, opLimit |-> MaxFewOps, rnd |-> RandWide,
             twinned |-> FALSE, responses |-> Responses, hangs |-> {FALSE}])

NextSpawn ==
    \/ \E p \in Pages : SetPage(p)
    \/ \E d \in Densities : SetSpatterDensity(d)
    \/ AnimationFrame

SpecSpawn == InitSpawn /\ [][NextSpawn]_vars

\* C22: a slot activated in a tick ends that tick with life exactly 1.0,
\* position exactly (0,0,0.5) and velocity (cos(a)*s, sin(a)*s, vz) for an
\* angle a, an s in [0.05,0.25) and a vz in [0.1,0.4): it was not moved,
\* gravity-biased or decayed in that tick
C22_SpawnedAsGiven ==
    [][\A i \in Activated :
          /\ pool'.life[i] = 10000
          /\ pool'.pos[i] = <<0, 0, 5000>>
          /\ pool'.vel[i][3] >= 1000 /\ pool'.vel[i][3] < 4000
          /\ \E ra \in env.rnd.angle, r2 \in env.rnd.spread :
                LET a == Div(ra * 2 * Pi4, 1000)
                    s == 500 + r2 * 2
                IN  /\ s >= 500 /\ s < 2500
                    /\ pool'.vel[i][1] = Div(Cos4(a) * s, 10000)
                    /\ pool'.vel[i][2] = Div(Sin4(a) * s, 10000)]_vars

\* C22 witness: a tick spawned two slots in different directions, one at
\* the smallest and one at nearly the largest speed
C22_Witness ==
    /\ currentPage = "simulation"
    /\ tickInfo.spawned = 2
    /\ pool.life[1] = 10000 /\ pool.life[2] = 10000
    /\ pool.pos[1] = <<0, 0, 5000>> /\ pool.pos[2] = <<0, 0, 5000>>
    /\ pool.vel[1] = <<500, 0, 1000>>
    /\ pool.vel[2][2] < -2400
    /\ pool.vel[2][3] = 3997

-----------------------------------------------------------------------------
(* The advance of active particles down to the floor (SpecAdvance) *)

\* every spawn roll succeeds; spawns are thrown straight down at nearly the
\* largest spread, with the life decay drawn at both ends of its range
RandFall ==
    [roll |-> {0}, angle |-> {750}, spread |-> {950}, up |-> {0}, decay |-> {0, 999}]

\* the slider values used here: a budget of one spawn or none per tick, and
\* the smallest lifespan multiplier
AdvancePages == {"home", "simulation"}
AdvanceDensities == {5, 0}
AdvanceLives == {1}

InitAdvance ==
    InitApp(<< COMPONENTS[2], COMPONENTS[4] >>,
            [stepLimit |-> MaxDeepSteps, opLimit |-> MaxFewOps, rnd |-> RandFall,
             twinned |-> FALSE, responses |-> Responses, hangs |-> {FALSE}])

NextAdvance ==
    \/ \E p \in AdvancePages : SetPage(p)
    \/ \E d \in AdvanceDensities : SetSpatterDensity(d)
    \/ \E l \in AdvanceLives : SetSpatterLife(l)
    \/ AnimationFrame

SpecAdvance == InitAdvance /\ [][NextAdvance]_vars

\* the move and the gravity bias of slot i in a step: position += velocity
\* with the velocity from before the step, then velocity.y -= 0.01
C23_Moved(i) ==
    /\ pool'.pos[i] = << pool.pos[i][1] + pool.vel[i][1],
                         pool.pos[i][2] + pool.vel[i][2],
                         pool.pos[i][3] + pool.vel[i][3] >>
    /\ pool'.vel[i] = << pool.vel[i][1], pool.vel[i][2] - 100, pool.vel[i][3] >>

\* the life of slot i falls in a step by an amount in [0.015,0.025) divided
\* by max(0.1, lifeMultiplier)
C23_Decayed(i) ==
    LET d == pool.life[i] - pool'.life[i]
        m == Max(1, spatterLife)
    IN  d * m < 2500 /\ (d + 1) * m > 1500

\* slot i is as it was
C23_Kept(i) ==
    /\ pool'.life[i] = pool.life[i]
    /\ pool'.pos[i] = pool.pos[i]
    /\ pool'.vel[i] = pool.vel[i]

\* C23 as claimed: in an active tick every active particle is moved by its
\* old velocity, then gravity-biased, then its life decreases by an amount
\* in [0.015,0.025)/max(0.1, lifeMultiplier); inactive slots that are not
\* spawned keep their position, velocity and life
C23_AdvanceOrder ==
    [][(AnimationFrame /\ ParticlesActive) =>
        \A i \in Slots :
            IF pool.life[i] > 0
            THEN C23_Moved(i) /\ C23_Decayed(i)
            ELSE i \notin Activated => C23_Kept(i)]_vars

\* C23 amended: as claimed, but the life of a particle whose new position
\* is below the floor (y < -1.5) ends the tick at 0 instead of the decayed
\* value
C23_AdvanceOrderThenFloor ==
    [][(AnimationFrame /\ ParticlesActive) =>
        \A i \in Slots :
            IF pool.life[i] > 0
            THEN /\ C23_Moved(i)
                 /\ IF pool'.pos[i][2] < -15000 THEN pool'.life[i] = 0 ELSE C23_Decayed(i)
            ELSE i \notin Activated => C23_Kept(i)]_vars

\* C23 witness: with the lifespan multiplier at its minimum and no spawn
\* budget, one particle is still falling while another has died above the
\* floor and its slot is left as it was
C23_Witness ==
    /\ currentPage = "simulation"
    /\ ParticlesActive
    /\ spatterLife = 1
    /\ spatterDensity = 0
    /\ frames > 0
    /\ \E i, j \in Slots :
          /\ pool.life[i] > 0 /\ pool.life[i] < 10000
          /\ pool.pos[i][2] < 0 /\ pool.vel[i][2] < -2400
          /\ pool.life[j] <= 0 /\ pool.pos[j][2] < 0 /\ pool.pos[j][2] >= -15000

-----------------------------------------------------------------------------
(* The emergency stop (Spec) *)

\* C24: once emergencyStopped is true it stays true through every operation
\* but Reset E-Stop, and every operation that sets emergencyStopped (the
\* intrusion button, diagnostics on a safety log) leaves running false
C24_EStopLatched ==
    [][/\ (isEmergencyStopped /\ ~isEmergencyStopped') => ResetEStop
       /\ (~isEmergencyStopped /\ isEmergencyStopped') => ~simRunning'
       /\ SimulateHumanIntrusion => (isEmergencyStopped' /\ ~simRunning')
       /\ (RunDiagnostics /\ ~IsBlank(errorLog) /\ IsSafetyLog(errorLog))
             => (isEmergencyStopped' /\ ~simRunning')]_vars

\* C24 witness: still emergency-stopped after the diagnostic request that
\* came with the stop has completed and Start Sim was pressed
C24_Witness ==
    /\ isEmergencyStopped
    /\ simRunning
    /\ ~isDiagnosing
    /\ diagInFlight = 0

\* the diagnostics button is pressed on a non-empty log that contains one of
\* the two safety phrases
C25_SafetyRun ==
    /\ RunDiagnostics
    /\ errorLog # <<>>
    /\ \/ \E i \in 1..Len(errorLog) : errorLog[i] = "Human profile identified"
       \/ \E i \in 1..Len(errorLog) : errorLog[i] = "CRITICAL_SAFETY_ALARM"

\* C25: the step that issues the diagnostic request for a safety log leaves
\* emergencyStopped true and running false, with the request still in
\* flight; the step in which a request returns changes neither flag
C25_HaltBeforeResult ==
    [][/\ C25_SafetyRun =>
            /\ diagInFlight' = diagInFlight + 1
            /\ isEmergencyStopped'
            /\ ~simRunning'
       /\ DiagnosticsComplete => UNCHANGED << isEmergencyStopped, simRunning >>]_vars

\* C25 witness: halted by diagnostics on the first preset log while the
\* request is in flight and no result has arrived
C25_Witness ==
    /\ currentPage = "diagnostics"
    /\ errorLog = PRESET_LOGS[1]
    /\ isDiagnosing
    /\ diagInFlight = 1
    /\ isEmergencyStopped
    /\ ~simRunning

-----------------------------------------------------------------------------
(* The published pose (Spec) *)

\* C26: the joint pose published to the render layer equals theta1 and
\* theta2 of the carried JointState
C26_PublishedPoseInSync ==
    /\ jointState.theta1 = simRef.theta1
    /\ jointState.theta2 = simRef.theta2

-----------------------------------------------------------------------------
(* Particles over hundreds of ticks (SpecLong) *)

\* every spawn roll succeeds; spawns are thrown straight up at nearly the
\* largest spread, and the life decay is the smallest of its range
RandUp ==
    [roll |-> {0}, angle |-> {250}, spread |-> {999}, up |-> {0}, decay |-> {0}]

\* the largest lifespan multiplier of the slider: 5.0
LongLives == {50}

\* the application with the torque slider at 0 and the joints at their
\* initial values, as in the numeric scenario: the joints swing under
\* gravity and damping only
InitLong ==
    /\ InitBase([stepLimit |-> MaxLongSteps, opLimit |-> MaxLongOps, rnd |-> RandUp,
                 twinned |-> FALSE, responses |-> Responses, hangs |-> {FALSE}])
    /\ torque = 0
    /\ installedComponents = << COMPONENTS[2], COMPONENTS[4] >>
    /\ simRef = SimInit
    /\ jointState = Published(SimInit)
    /\ twin = NoTwin

NextLong ==
    \/ \E p \in AdvancePages : SetPage(p)
    \/ \E l \in LongLives : SetSpatterLife(l)
    \/ AnimationFrame

SpecLong == InitLong /\ [][NextLong]_vars

\* the upward velocity every particle of SpecLong is spawned with
C27_SpawnVy == Div(Sin4(Div(250 * 2 * Pi4, 1000)) * (500 + 999 * 2), 10000)

\* the ticks slot i has been advanced since it was spawned: each advance
\* takes 0.01 from its upward velocity
C27_Age(i) == Div(C27_SpawnVy - pool.vel[i][2], 100)

\* C27: in an active tick the life of every active particle falls by at
\* least 0.015/max(0.1, lifeMultiplier) or to 0 and below, and no particle
\* is still active 334 ticks after it was spawned
C27_RetiredWithin334 ==
    /\ [](\A i \in Slots : pool.life[i] > 0 => C27_Age(i) < 334)
    /\ [][(AnimationFrame /\ ParticlesActive) =>
            \A i \in Slots :
                pool.life[i] > 0 =>
                    \/ pool'.life[i] <= 0
                    \/ pool.life[i] - pool'.life[i] >= Div(1500, Max(1, spatterLife))]_vars

\* C27 witness: with the lifespan multiplier at 5.0, more than 334 ticks
\* have run and the particles now active were spawned in slots that earlier
\* particles left
C27_Witness ==
    /\ currentPage = "simulation"
    /\ ParticlesActive
    /\ spatterLife = 50
    /\ frames > 334
    /\ \A i \in Slots : pool.life[i] > 0 /\ C27_Age(i) > 0 /\ C27_Age(i) < 100

-----------------------------------------------------------------------------
(* The overlay once every request has returned (SpecOverlay) *)

\* every request completes (no call hangs); the envelope leaves room for
\* the completion of every request the passes can issue, one per captured
\* component (at most three: Actuator, Tool, Chassis)
InitOverlay ==
    InitApp(<< COMPONENTS[2], COMPONENTS[4] >>,
            [stepLimit |-> MaxSteps, opLimit |-> MaxFewOps + 3 * MaxPasses,
             rnd |-> RandQuiet, twinned |-> FALSE, responses |-> Responses,
             hangs |-> {FALSE}])

\* the user operations, which come to an end
UserOverlay ==
    /\ ops < MaxFewOps
    /\ \/ \E p \in Pages : SetPage(p)
       \/ ToggleSim
       \/ \E i \in DragItems : DragStart(i)
       \/ HandleDrop

\* a request in flight returns
ResponseOverlay == \E r \in requests, resp \in env.responses : AnalysisResponse(r, resp)

NextOverlay ==
    \/ UserOverlay
    \/ ResponseOverlay
    \/ AnimationFrame

\* the service answers every request: a response that can arrive does
SpecOverlay == InitOverlay /\ [][NextOverlay]_vars /\ WF_vars(ResponseOverlay)

\* an installed component whose overlay entry is Scanning
C28_Scanning ==
    \E t \in Filled(installedComponents) :
        t \in DOMAIN healthOverlay /\ healthOverlay[t].isScanning

\* C28: when every request completes and the user operations have come to
\* an end, eventually no installed component's overlay entry is Scanning,
\* and it stays so
C28_EventuallySettled == <>[](~C28_Scanning)

-----------------------------------------------------------------------------
(* Drops of every inventory entry (SpecBuild) *)

\* the inventory entries the user can drag: all of them
BuildItems == 1..Len(COMPONENTS)

InitBuild ==
    InitApp(<< COMPONENTS[2], COMPONENTS[4] >>,
            [stepLimit |-> MaxSteps, opLimit |-> MaxOps, rnd |-> RandQuiet,
             twinned |-> FALSE, responses |-> ResponsesBrief, hangs |-> {FALSE}])

NextBuild ==
    \/ \E p \in AdvancePages : SetPage(p)
    \/ ToggleSim
    \/ \E i \in BuildItems : DragStart(i)
    \/ HandleDrop
    \/ \E r \in requests, resp \in env.responses : AnalysisResponse(r, resp)
    \/ AnimationFrame

SpecBuild == InitBuild /\ [][NextBuild]_vars

-----------------------------------------------------------------------------
(* The viewer's animation loops (Spec) *)

\* C30: at most one viewer animation loop is live, and none while the
\* viewer is unmounted
C30_AtMostOneViewerLoop ==
    viewerLoops <= (IF currentPage = "simulation" THEN 1 ELSE 0)

=============================================================================
